---- MODULE Spec2Model ----
(***************************************************************************)
(* Model of the chat-langchain front end: the ChatWindow component (state, *)
(* sendMessage, the processText read loop) and the ChatMessageBubble       *)
(* component (filterSources, createAnswerElements, sendFeedback and the    *)
(* thumbs-up / thumbs-down click handlers).                                *)
(*                                                                         *)
(* JavaScript indices are kept 0-based as numbers; TLA+ sequences are      *)
(* 1-based, so the element with JavaScript index i is seq[i + 1].          *)
(*                                                                         *)
(* One step is one run of a handler or of a promise continuation up to its *)
(* next await; state updaters run in the step that queues them. Handlers   *)
(* read the state of the latest render. The chunks of a response stream    *)
(* are well formed: every line parses as JSON with one of tok, run_id and  *)
(* sources. An exception thrown by a state updater unmounts the component  *)
(* tree (there is no error boundary in these files): the run ends there.   *)
(***************************************************************************)
EXTENDS Integers, Sequences, FiniteSets, TLC

\* ------------------------------------------------------------------------
\* Bounds
\* ------------------------------------------------------------------------
\* longest assistant content (in characters) handed to createAnswerElements
MaxContentLen == 4
\* longest source list with repeated URLs handed to filterSources
MaxSources == 4
\* longest source list of pairwise distinct URLs
MaxDistinct == 12
\* most sendMessage invocations accepted in one run
MaxSubmits == 4
\* most chunks one response stream delivers
MaxChunks == 2
\* most lines in one chunk, where chunks are enumerated
MaxLines == 2
\* most requests sent to the /feedback endpoint in one run
MaxFeedback == 2

\* ------------------------------------------------------------------------
\* ChatMessageBubble: filterSources
\* ------------------------------------------------------------------------
\* A Source is a URL plus metadata; the metadata modelled is the title.
Source(u, t) == [url |-> u, title |-> t]

\* Map.get(k) === undefined: the map holds no entry for k
MapGetUndefined(m, k) == k \notin DOMAIN m

\* Map.set
MapSet(m, k, v) == [x \in (DOMAIN m) \cup {k} |-> IF x = k THEN v ELSE m[x]]

EmptyMap == [x \in {} |-> 0]

\* The body of the forEach callback of filterSources, for the source at
\* JavaScript index i; acc holds filtered, urlMap and indexMap.
FilterStep(acc, source, i) ==
  IF MapGetUndefined(acc.urlMap, source.url)
      THEN [filtered |-> Append(acc.filtered, source),
            urlMap   |-> MapSet(acc.urlMap, source.url, i),
            indexMap |-> MapSet(acc.indexMap, i, Len(acc.filtered))]
      ELSE [filtered |-> acc.filtered,
            urlMap   |-> acc.urlMap,
            indexMap |-> MapSet(acc.indexMap, i, acc.urlMap[source.url])]

RECURSIVE FilterFrom(_, _, _)
FilterFrom(sources, i, acc) ==
  IF i >= Len(sources) THEN acc
  ELSE FilterFrom(sources, i + 1, FilterStep(acc, sources[i + 1], i))

filterSources(sources) ==
  LET r == FilterFrom(sources, 0,
                      [filtered |-> <<>>, urlMap |-> EmptyMap, indexMap |-> EmptyMap])
  IN  [filtered |-> r.filtered, indexMap |-> r.indexMap]

\* ------------------------------------------------------------------------
\* ChatMessageBubble: createAnswerElements
\* ------------------------------------------------------------------------
\* Content is a sequence of characters.
Digits == {"0", "1", "2", "3", "4", "5", "6", "7", "8", "9"}

DigitVal(c) ==
  CASE c = "0" -> 0 [] c = "1" -> 1 [] c = "2" -> 2 [] c = "3" -> 3
    [] c = "4" -> 4 [] c = "5" -> 5 [] c = "6" -> 6 [] c = "7" -> 7
    [] c = "8" -> 8 [] c = "9" -> 9

\* content.slice(from, to) with 0-based from (inclusive) and to (exclusive)
Slice(content, from, to) ==
  IF to <= from THEN <<>> ELSE SubSeq(content, from + 1, to)

\* JavaScript index of the first non-digit at or after p (\d+ is greedy)
RECURSIVE DigitsEnd(_, _)
DigitsEnd(content, p) ==
  IF p < Len(content) /\ content[p + 1] \in Digits
  THEN DigitsEnd(content, p + 1) ELSE p

\* parseInt(digits, 10)
RECURSIVE parseInt(_)
parseInt(ds) ==
  IF ds = <<>> THEN 0
  ELSE 10 * parseInt(SubSeq(ds, 1, Len(ds) - 1)) + DigitVal(ds[Len(ds)])

\* One attempt of the regular expression /\[\^?(\d+)\^?\]/ at JavaScript
\* index p: the sequence holding the match (its index, the index after it,
\* its group 1 parsed), or the empty sequence when there is none.
MatchAt(content, p) ==
  IF ~(p < Len(content) /\ content[p + 1] = "[") THEN <<>>
  ELSE LET a == IF p + 1 < Len(content) /\ content[p + 2] = "^"
                THEN p + 2 ELSE p + 1
           b == DigitsEnd(content, a)
           c == IF b < Len(content) /\ content[b + 1] = "^" THEN b + 1 ELSE b
       IN  IF b > a /\ c < Len(content) /\ content[c + 1] = "]"
           THEN << [index |-> p, end |-> c + 1,
                    sourceNum |-> parseInt(Slice(content, a, b))] >>
           ELSE <<>>

\* content.matchAll(...): the non-overlapping matches from left to right
RECURSIVE MatchAllFrom(_, _)
MatchAllFrom(content, p) ==
  IF p >= Len(content) THEN <<>>
  ELSE LET m == MatchAt(content, p)
       IN  IF m = <<>> THEN MatchAllFrom(content, p + 1)
           ELSE m \o MatchAllFrom(content, m[1].end)

matchAll(content) == MatchAllFrom(content, 0)

\* The elements pushed: a span of plain content, or an InlineCitation.
Span(prevIndex, to, html) ==
  [kind |-> "span", key |-> prevIndex, to |-> to, html |-> html]
InlineCitation(prevIndex, source, sourceNumber) ==
  [kind |-> "citation", key |-> prevIndex, source |-> source,
   sourceNumber |-> sourceNumber]

\* The sentinel of `sourceIndexMap.get(sourceNum) ?? 10`
Sentinel == 10

\* The body of matches.forEach; acc holds elements and prevIndex.
AnswerStep(acc, content, match, filteredSources, sourceIndexMap) ==
  LET resolvedNum == IF MapGetUndefined(sourceIndexMap, match.sourceNum)
                     THEN Sentinel ELSE sourceIndexMap[match.sourceNum]
  IN  IF resolvedNum < Len(filteredSources)
      THEN [elements |-> acc.elements \o
              << Span(acc.prevIndex, match.index,
                      Slice(content, acc.prevIndex, match.index)),
                 InlineCitation(acc.prevIndex, filteredSources[resolvedNum + 1],
                                resolvedNum) >>,
            prevIndex |-> match.end]
      ELSE acc

RECURSIVE AnswerFrom(_, _, _, _, _, _)
AnswerFrom(acc, content, matches, k, filteredSources, sourceIndexMap) ==
  IF k > Len(matches) THEN acc
  ELSE AnswerFrom(AnswerStep(acc, content, matches[k], filteredSources, sourceIndexMap),
                  content, matches, k + 1, filteredSources, sourceIndexMap)

createAnswerElements(content, filteredSources, sourceIndexMap) ==
  LET r == AnswerFrom([elements |-> <<>>, prevIndex |-> 0], content,
                      matchAll(content), 1, filteredSources, sourceIndexMap)
  IN  Append(r.elements,
             Span(r.prevIndex, Len(content), Slice(content, r.prevIndex, Len(content))))

\* ------------------------------------------------------------------------
\* Rendering of one assistant bubble (ChatMessageBubble body, lines 177-195)
\* ------------------------------------------------------------------------
VARIABLES
  rContent,    \* props.message.content of the bubble being rendered
  rSources,    \* props.message.sources ?? []
  rElements,   \* answerElements
  rPc          \* "props" before the render, "rendered" after it

renderVars == <<rContent, rSources, rElements, rPc>>

\* The characters assistant contents are drawn from
Chars == {"[", "]", "^", "1", "3", "x"}

RECURSIVE SeqsUpTo(_, _)
SeqsUpTo(S, n) ==
  IF n = 0 THEN {<<>>}
  ELSE LET shorter == SeqsUpTo(S, n - 1)
       IN  shorter \cup {Append(s, x) : s \in shorter, x \in S}

Contents == SeqsUpTo(Chars, MaxContentLen)

\* URLs are numbered: the URLs of source lists with repetitions, and the
\* n-th URL of a list of distinct URLs
RepeatUrls == {1, 2}
DistinctUrl(n) == n

\* A source list: the URLs given, each source titled by its position
WithTitles(urls) == [i \in 1..Len(urls) |-> Source(urls[i], i - 1)]

SourceLists ==
  {WithTitles(urls) : urls \in SeqsUpTo(RepeatUrls, MaxSources)}
  \cup {WithTitles([i \in 1..n |-> DistinctUrl(i)]) : n \in 0..MaxDistinct}

RenderInit ==
  /\ rContent \in Contents
  /\ rSources \in SourceLists
  /\ rElements = <<>>
  /\ rPc = "props"

\* The render of an assistant bubble: filterSources, then createAnswerElements
Render ==
  /\ rPc = "props"
  /\ LET fs == filterSources(rSources)
     IN  rElements' = createAnswerElements(rContent, fs.filtered, fs.indexMap)
  /\ rPc' = "rendered"
  /\ UNCHANGED <<rContent, rSources>>

\* ------------------------------------------------------------------------
\* ChatWindow: state
\* ------------------------------------------------------------------------
VARIABLES
  messages,     \* useState<Array<Message>>([])
  input,        \* useState("")
  isLoading,    \* useState(false)
  chatHistory,  \* useState<{human, ai}[]>([])
  calls,        \* the accepted sendMessage invocations, in order: the locals
                \* of each (messageValue, the request body, accumulatedMessage,
                \* runId, sources, messageIndex) and where it stands
  crashed       \* a state updater threw: React unmounted the component tree

chatVars == <<messages, input, isLoading, chatHistory, calls, crashed>>

\* ChatWindow: what leaves the component, and the render it is in
VARIABLES
  requests,        \* the requests sent to the /chat endpoint, in order
  conversationId,  \* `const conversationId = uuidv4()` of the latest render
  returnedEarly    \* the latest step was a sendMessage call that returned at
                   \* one of its guards (not in the code)

wireVars == <<requests, conversationId, returnedEarly>>

\* ChatMessageBubble: the state of the bubbles of the assistant messages
VARIABLES
  bubbles,      \* per invocation k, the state of the bubble of its assistant
                \* message: isLoading (useState(false)), feedback (useState(null))
  feedbackLog   \* the requests sent to the /feedback endpoint, in order

bubbleVars == <<bubbles, feedbackLog>>

vars == <<messages, input, isLoading, chatHistory, calls, crashed,
          requests, conversationId, returnedEarly,
          bubbles, feedbackLog, rContent, rSources, rElements, rPc>>

\* An optional value (undefined or null in the code) is the empty sequence,
\* a present value v is <<v>>.
None == <<>>
Some(v) == <<v>>

\* Text is a sequence of characters; "" is <<>>.
EmptyText == <<>>
Texts == {<<"p">>, <<"q">>}

\* String.prototype.trim
Whitespace == {" ", "\n"}

RECURSIVE TrimStart(_)
TrimStart(t) ==
  IF t # <<>> /\ t[1] \in Whitespace THEN TrimStart(Tail(t)) ELSE t

RECURSIVE TrimEnd(_)
TrimEnd(t) ==
  IF t # <<>> /\ t[Len(t)] \in Whitespace
  THEN TrimEnd(SubSeq(t, 1, Len(t) - 1)) ELSE t

Trim(t) == TrimEnd(TrimStart(t))

\* marked.parse with the renderer of sendMessage, for text without markdown
\* structure: one paragraph, its surrounding blank space dropped, rendered
\* as the text followed by a newline; nothing for blank text.
markedParse(t) ==
  IF Trim(t) = <<>> THEN <<>> ELSE Append(Trim(t), "\n")

\* parsedResult.trim()
Formatted(accumulatedMessage) == Trim(markedParse(accumulatedMessage))

\* The lines of the response stream, JSON.parse'd
TokLine(t) == [kind |-> "tok", tok |-> t, run_id |-> "", sources |-> <<>>]
RunIdLine(r) == [kind |-> "run_id", tok |-> <<>>, run_id |-> r, sources |-> <<>>]
SourcesLine(l) == [kind |-> "sources", tok |-> <<>>, run_id |-> "", sources |-> l]

\* The user message appended by sendMessage; its id is Math.random(), here
\* the number of the invocation.
UserMessage(k, messageValue) ==
  [id |-> <<"user", k>>, content |-> messageValue, role |-> "user",
   runId |-> None, sources |-> None]

\* The assistant message pushed by the first chunk of invocation k
AssistantMessage(k, content, runId, sources) ==
  [id |-> <<"assistant", k>>, content |-> content, role |-> "assistant",
   runId |-> runId, sources |-> sources]

\* prevMessages.slice(0, -1)
SliceOffLast(msgs) ==
  IF msgs = <<>> THEN <<>> ELSE SubSeq(msgs, 1, Len(msgs) - 1)

\* LineStep with a tok fragment put in front of the buffer
LineStep_Prepends(loc, parsed) ==
  IF parsed.kind = "tok"
  THEN [loc EXCEPT !.accumulatedMessage = parsed.tok \o loc.accumulatedMessage]
  ELSE IF parsed.kind = "run_id"
  THEN [loc EXCEPT !.runId = Some(parsed.run_id)]
  ELSE IF parsed.kind = "sources"
  THEN [loc EXCEPT !.sources = Some(parsed.sources)]
  ELSE loc

\* The callback of .map in processText, for one parsed line; loc holds the
\* locals accumulatedMessage, runId and sources.
LineStep(loc, parsed) ==
  IF parsed.kind = "tok"
  THEN [loc EXCEPT !.accumulatedMessage = loc.accumulatedMessage \o parsed.tok]
  ELSE IF parsed.kind = "run_id"
  THEN [loc EXCEPT !.runId = Some(parsed.run_id)]
  ELSE IF parsed.kind = "sources"
  THEN [loc EXCEPT !.sources = Some(parsed.sources)]
  ELSE loc

RECURSIVE LinesFrom(_, _, _)
LinesFrom(loc, chunk, n) ==
  IF n > Len(chunk) THEN loc
  ELSE LinesFrom(LineStep(loc, chunk[n]), chunk, n + 1)

\* decoder.decode(value).trim().split("\n").map(...)
ParseChunk(loc, chunk) == LinesFrom(loc, chunk, 1)

\* UpsertMessage replacing only the content of an existing slot
UpsertMessage_ContentOnly(prevMessages, k, loc) ==
  LET content == Formatted(loc.accumulatedMessage)
  IN  IF loc.messageIndex = None
      THEN [threw |-> FALSE,
            messageIndex |-> Some(Len(prevMessages)),
            newMessages |-> Append(prevMessages,
                              AssistantMessage(k, content, loc.runId, loc.sources))]
      ELSE IF loc.messageIndex[1] < Len(prevMessages)
      THEN [threw |-> FALSE,
            messageIndex |-> loc.messageIndex,
            newMessages |->
              [prevMessages EXCEPT ![loc.messageIndex[1] + 1].content = content]]
      ELSE [threw |-> TRUE,
            messageIndex |-> loc.messageIndex,
            newMessages |-> prevMessages]

\* The updater handed to setMessages by processText, for the locals loc of
\* the invocation k. It throws (TypeError) when messageIndex is past the end
\* of the list; the result then has threw = TRUE.
UpsertMessage(prevMessages, k, loc) ==
  LET content == Formatted(loc.accumulatedMessage)
  IN  IF loc.messageIndex = None
      THEN [threw |-> FALSE,
            messageIndex |-> Some(Len(prevMessages)),
            newMessages |-> Append(prevMessages,
                              AssistantMessage(k, content, loc.runId, loc.sources))]
      ELSE IF loc.messageIndex[1] < Len(prevMessages)
      THEN [threw |-> FALSE,
            messageIndex |-> loc.messageIndex,
            newMessages |->
              [prevMessages EXCEPT ![loc.messageIndex[1] + 1] =
                 [@ EXCEPT !.content = content, !.runId = loc.runId,
                           !.sources = loc.sources]]]
      ELSE [threw |-> TRUE,
            messageIndex |-> loc.messageIndex,
            newMessages |-> prevMessages]

\* ------------------------------------------------------------------------
\* ChatMessageBubble: state of a bubble
\* ------------------------------------------------------------------------
\* The state of a bubble when it is mounted
NewBubble == [isLoading |-> FALSE, feedback |-> None]

\* The bubbles after the list changed from msgs to newMsgs: the bubble of an
\* assistant message that left the list is unmounted and its state is lost
\* (bubbles are keyed by message id).
AfterUnmount(bs, newMsgs) ==
  [k \in DOMAIN bs |->
     IF \E i \in 1..Len(newMsgs) : newMsgs[i].id = <<"assistant", k>>
     THEN bs[k] ELSE NewBubble]

\* ------------------------------------------------------------------------
\* ChatWindow: sendMessage and the read loop
\* ------------------------------------------------------------------------
\* The invocation as it stands right after the fetch was issued. `responded`
\* is not in the code: it records which earlier invocations had delivered
\* response chunks without failing by the time this request was sent.
NewCall(messageValue, history, responded) ==
  [pc |-> "fetch", messageValue |-> messageValue,
   body |-> [message |-> messageValue, history |-> history],
   responded |-> responded,
   accumulatedMessage |-> EmptyText, runId |-> None, sources |-> None,
   messageIndex |-> None,
   received |-> <<>>, nchunks |-> 0]

\* uuidv4(): a value that no request sent so far carries. Ids are numbers; the
\* fresh one is the successor of the largest id on the wire.
uuidv4(reqs) ==
  LET used == {reqs[i].conversation_id : i \in 1..Len(reqs)}
  IN  IF used = {} THEN 1
      ELSE 1 + (CHOOSE m \in used : \A n \in used : n <= m)

\* The body of the POST to /chat
ChatRequest(messageValue, history) ==
  [message |-> messageValue, history |-> history,
   conversation_id |-> conversationId]

\* A step that sets ChatWindow state: the component function runs again and
\* line 32 draws a new conversationId. No request is sent.
Rerender ==
  /\ conversationId' = uuidv4(requests)
  /\ UNCHANGED requests
  /\ returnedEarly' = FALSE

\* A step that sets no ChatWindow state and sends no chat request
NoRerender ==
  /\ UNCHANGED <<requests, conversationId>>
  /\ returnedEarly' = FALSE

\* Invocations whose request is pending or whose stream has not ended
InProgress == {k \in 1..Len(calls) : calls[k].pc \in {"fetch", "read"}}

\* Invocations that have delivered response chunks and have not failed
Responded ==
  {k \in 1..Len(calls) :
     \/ calls[k].pc = "done"
     \/ calls[k].pc = "read" /\ calls[k].nchunks > 0}

\* `message ?? input`
MessageValue(message) == IF message = None THEN input ELSE message[1]

\* sendMessage(message) up to the await of fetch, when it passes both guards
SendMessage(message) ==
  /\ ~crashed
  /\ Len(calls) < MaxSubmits
  /\ ~isLoading
  /\ MessageValue(message) # EmptyText
  /\ input' = EmptyText
  /\ messages' = Append(messages, UserMessage(Len(calls) + 1, MessageValue(message)))
  /\ isLoading' = TRUE
  /\ calls' = Append(calls, NewCall(MessageValue(message), chatHistory, Responded))
  /\ requests' = Append(requests, ChatRequest(MessageValue(message), chatHistory))
  /\ conversationId' = uuidv4(requests')
  /\ returnedEarly' = FALSE
  /\ UNCHANGED <<chatHistory, crashed>>
  /\ UNCHANGED <<bubbleVars, renderVars>>

\* SendMessageIgnored with setInput("") ahead of the guards
SendMessageIgnored_ClearsInput(message) ==
  /\ ~crashed
  /\ isLoading \/ MessageValue(message) = EmptyText
  /\ returnedEarly' = TRUE
  /\ input' = EmptyText
  /\ UNCHANGED <<messages, isLoading, chatHistory, calls, crashed>>
  /\ UNCHANGED <<requests, conversationId>>
  /\ UNCHANGED <<bubbleVars, renderVars>>

\* sendMessage(message) returning at one of its two guards
SendMessageIgnored(message) ==
  /\ ~crashed
  /\ isLoading \/ MessageValue(message) = EmptyText
  /\ returnedEarly' = TRUE
  /\ UNCHANGED <<chatVars, requests, conversationId>>
  /\ UNCHANGED <<bubbleVars, renderVars>>

\* onChange of the input field
SetInput(text) ==
  /\ ~crashed
  /\ Rerender
  /\ input # text
  /\ input' = text
  /\ UNCHANGED <<messages, isLoading, chatHistory, calls, crashed>>
  /\ UNCHANGED <<bubbleVars, renderVars>>

\* FetchRejects sending the request once more
FetchRejects_Resends(k) ==
  /\ ~crashed
  /\ calls[k].pc = "fetch"
  /\ requests' = Append(requests, requests[k])
  /\ conversationId' = uuidv4(requests')
  /\ returnedEarly' = FALSE
  /\ messages' = SliceOffLast(messages)
  /\ isLoading' = FALSE
  /\ input' = calls[k].messageValue
  /\ calls' = [calls EXCEPT ![k].pc = "rejected"]
  /\ bubbles' = AfterUnmount(bubbles, SliceOffLast(messages))
  /\ UNCHANGED <<chatHistory, crashed, feedbackLog, renderVars>>

\* The fetch of invocation k rejects: the catch block of sendMessage
FetchRejects(k) ==
  /\ ~crashed
  /\ Rerender
  /\ calls[k].pc = "fetch"
  /\ messages' = SliceOffLast(messages)
  /\ isLoading' = FALSE
  /\ input' = calls[k].messageValue
  /\ calls' = [calls EXCEPT ![k].pc = "rejected"]
  /\ bubbles' = AfterUnmount(bubbles, SliceOffLast(messages))
  /\ UNCHANGED <<chatHistory, crashed, feedbackLog, renderVars>>

\* The fetch of invocation k resolves with a response without a body:
\* sendMessage throws
FetchResolvesNoBody(k) ==
  /\ ~crashed
  /\ NoRerender
  /\ calls[k].pc = "fetch"
  /\ calls' = [calls EXCEPT ![k].pc = "nobody"]
  /\ UNCHANGED <<messages, input, isLoading, chatHistory, crashed>>
  /\ UNCHANGED <<bubbleVars, renderVars>>

\* The fetch of invocation k resolves with a body: the locals are set up and
\* the first reader.read() is issued
FetchResolves(k) ==
  /\ ~crashed
  /\ NoRerender
  /\ calls[k].pc = "fetch"
  /\ calls' = [calls EXCEPT ![k].pc = "read"]
  /\ UNCHANGED <<messages, input, isLoading, chatHistory, crashed>>
  /\ UNCHANGED <<bubbleVars, renderVars>>

\* processText with done = false, for the chunk read by invocation k
ProcessChunk(k, chunk) ==
  /\ ~crashed
  /\ Rerender
  /\ calls[k].pc = "read"
  /\ calls[k].nchunks < MaxChunks
  /\ LET loc == ParseChunk(calls[k], chunk)
         up  == UpsertMessage(messages, k, loc)
     IN  /\ calls' = [calls EXCEPT ![k] =
                        [loc EXCEPT !.messageIndex = up.messageIndex,
                                    !.received = loc.received \o chunk,
                                    !.nchunks = loc.nchunks + 1]]
         /\ messages' = up.newMessages
         /\ crashed' = up.threw
         /\ isLoading' = IF up.threw THEN isLoading ELSE FALSE
  /\ UNCHANGED <<input, chatHistory>>
  /\ UNCHANGED <<bubbleVars, renderVars>>

\* ProcessDone recording the input field instead of messageValue
ProcessDone_UsesInput(k) ==
  /\ ~crashed
  /\ Rerender
  /\ calls[k].pc = "read"
  /\ chatHistory' = Append(chatHistory,
                           [human |-> input,
                            ai |-> calls[k].accumulatedMessage])
  /\ calls' = [calls EXCEPT ![k].pc = "done"]
  /\ UNCHANGED <<messages, input, isLoading, crashed>>
  /\ UNCHANGED <<bubbleVars, renderVars>>

\* processText with done = true
ProcessDone(k) ==
  /\ ~crashed
  /\ Rerender
  /\ calls[k].pc = "read"
  /\ chatHistory' = Append(chatHistory,
                           [human |-> calls[k].messageValue,
                            ai |-> calls[k].accumulatedMessage])
  /\ calls' = [calls EXCEPT ![k].pc = "done"]
  /\ UNCHANGED <<messages, input, isLoading, crashed>>
  /\ UNCHANGED <<bubbleVars, renderVars>>

\* reader.read() rejects: the .catch of the promise chain logs the error
ReadFails(k) ==
  /\ ~crashed
  /\ NoRerender
  /\ calls[k].pc = "read"
  /\ calls' = [calls EXCEPT ![k].pc = "error"]
  /\ UNCHANGED <<messages, input, isLoading, chatHistory, crashed>>
  /\ UNCHANGED <<bubbleVars, renderVars>>

\* ------------------------------------------------------------------------
\* ChatMessageBubble: feedback buttons and sendFeedback
\* ------------------------------------------------------------------------
\* JavaScript index of the assistant message of invocation k, if in the list
IndexOfAssistant(k) ==
  {i \in 0..(Len(messages) - 1) : messages[i + 1].id = <<"assistant", k>>}

\* The feedback buttons of the bubble of the assistant message of invocation
\* k are rendered: role is not "user", isMostRecent, messageCompleted
ButtonsShown(k) ==
  /\ IndexOfAssistant(k) = {Len(messages) - 1}
  /\ messages[Len(messages)].role # "user"
  /\ ~isLoading

\* props.message.runId of that bubble
RunIdOf(k) == messages[Len(messages)].runId

\* ClickGuard without the feedback === null test
ClickGuard_NoFeedbackTest(k) == RunIdOf(k) # None

\* The guard of both onClick handlers: feedback === null && props.message.runId
ClickGuard(k) == bubbles[k].feedback = None /\ RunIdOf(k) # None

\* The guards of sendFeedback: run_id defined, bubble not loading
SendGuard(k) == RunIdOf(k) # None /\ ~bubbles[k].isLoading

\* FeedbackRequest with the two methods the other way round
FeedbackRequest_MethodsSwapped(k, score) ==
  LET feedback == bubbles[k].feedback
  IN  [bubble |-> k,
       method |-> IF feedback # None THEN "POST" ELSE "PATCH",
       feedback_id |-> IF feedback # None THEN feedback[1].feedback_id
                       ELSE Len(feedbackLog) + 1,
       run_id |-> RunIdOf(k)[1], score |-> score, key |-> "user_score",
       outcome |-> "pending", toast |-> FALSE]

\* The request sent by sendFeedback; a fresh uuidv4 is the number of the
\* request in the log
FeedbackRequest(k, score) ==
  LET feedback == bubbles[k].feedback
  IN  [bubble |-> k,
       method |-> IF feedback # None THEN "PATCH" ELSE "POST",
       feedback_id |-> IF feedback # None THEN feedback[1].feedback_id
                       ELSE Len(feedbackLog) + 1,
       run_id |-> RunIdOf(k)[1], score |-> score, key |-> "user_score",
       outcome |-> "pending", toast |-> FALSE]

\* sendFeedback(score, "user_score") up to the await of fetch
sendFeedback(k, score) ==
  /\ SendGuard(k)
  /\ bubbles' = [bubbles EXCEPT ![k].isLoading = TRUE]
  /\ feedbackLog' = Append(feedbackLog, FeedbackRequest(k, score))

\* A click on the thumbs-up (score 1) or thumbs-down (score 0) button that
\* passes the guard of the handler and the guards of sendFeedback
ClickFeedback(k, score) ==
  /\ ~crashed
  /\ NoRerender
  /\ Len(feedbackLog) < MaxFeedback
  /\ ButtonsShown(k)
  /\ ClickGuard(k)
  /\ sendFeedback(k, score)
  /\ UNCHANGED <<chatVars, renderVars>>

\* A click that sends nothing: the handler shows the toast "You have already
\* provided your feedback.", or sendFeedback returns at a guard
ClickFeedbackIgnored(k) ==
  /\ ~crashed
  /\ ButtonsShown(k)
  /\ ~ClickGuard(k) \/ ~SendGuard(k)
  /\ NoRerender
  /\ UNCHANGED <<chatVars, bubbleVars, renderVars>>

\* The bubble that sent request n is still mounted
Mounted(n) == IndexOfAssistant(feedbackLog[n].bubble) # {}

\* The fetch of request n resolves and response.json() has the given code
FeedbackResponds(n, code) ==
  /\ ~crashed
  /\ NoRerender
  /\ feedbackLog[n].outcome = "pending"
  /\ LET r == feedbackLog[n]
         k == r.bubble
     IN  /\ feedbackLog' = [feedbackLog EXCEPT ![n].outcome =
                              IF code = 200 THEN "ok" ELSE "refused"]
         /\ bubbles' =
              IF ~Mounted(n) THEN bubbles
              ELSE IF code = 200
              THEN [bubbles EXCEPT
                      ![k].feedback = Some([run_id |-> r.run_id, score |-> r.score,
                                            key |-> r.key,
                                            feedback_id |-> r.feedback_id]),
                      ![k].isLoading = FALSE]
              ELSE [bubbles EXCEPT ![k].isLoading = FALSE]
  /\ UNCHANGED <<chatVars, renderVars>>

\* The fetch of request n rejects: the catch block shows an error toast
FeedbackFails(n) ==
  /\ ~crashed
  /\ NoRerender
  /\ feedbackLog[n].outcome = "pending"
  /\ feedbackLog' = [feedbackLog EXCEPT ![n].outcome = "error", ![n].toast = TRUE]
  /\ bubbles' = IF ~Mounted(n) THEN bubbles
                ELSE [bubbles EXCEPT ![feedbackLog[n].bubble].isLoading = FALSE]
  /\ UNCHANGED <<chatVars, renderVars>>

\* ------------------------------------------------------------------------
\* Inputs
\* ------------------------------------------------------------------------
\* What sendMessage is called with: nothing from the input field's handlers,
\* the chosen question from the empty state (shown while there is no message)
SendArguments ==
  {None} \cup (IF messages = <<>> THEN {Some(t) : t \in Texts} ELSE {})

Toks == {<<"a">>, <<" ">>}
RunIds == {"r1", "r2"}
SourcesValues == {WithTitles(<<1>>), WithTitles(<<1, 1>>)}

Lines ==
  {TokLine(t) : t \in Toks} \cup {RunIdLine(r) : r \in RunIds}
  \cup {SourcesLine(l) : l \in SourcesValues}

\* All chunks of up to MaxLines lines
AllChunks == SeqsUpTo(Lines, MaxLines) \ {<<>>}

\* The chunks of the runs with interleaved invocations
FewChunks == { <<TokLine(<<"a">>), RunIdLine("r1")>> }

\* The chunks of the runs with feedback: with and without a run id
FeedbackChunks == { <<TokLine(<<"a">>)>>, <<RunIdLine("r1")>> }

ChatInit ==
  /\ messages = <<>>
  /\ input = EmptyText
  /\ isLoading = FALSE
  /\ chatHistory = <<>>
  /\ calls = <<>>
  /\ crashed = FALSE
  /\ requests = <<>>
  /\ conversationId = uuidv4(<<>>)
  /\ returnedEarly = FALSE

\* The render variables while no bubble render is looked at
RenderIdle ==
  /\ rContent = <<>>
  /\ rSources = <<>>
  /\ rElements = <<>>
  /\ rPc = "idle"

BubbleInit ==
  /\ bubbles = [k \in 1..MaxSubmits |-> NewBubble]
  /\ feedbackLog = <<>>

Init == ChatInit /\ BubbleInit /\ RenderIdle

\* The runs of up to MaxInterleaved invocations, which may overlap
MaxInterleaved == 3

Next ==
  \/ \E t \in Texts \cup {EmptyText} : SetInput(t)
  \/ \E m \in SendArguments : Len(calls) < MaxInterleaved /\ SendMessage(m)
  \/ \E m \in SendArguments : SendMessageIgnored(m)
  \/ \E k \in 1..Len(calls) : FetchRejects(k)
  \/ \E k \in 1..Len(calls) : FetchResolvesNoBody(k)
  \/ \E k \in 1..Len(calls) : FetchResolves(k)
  \/ \E k \in 1..Len(calls) : \E c \in FewChunks : ProcessChunk(k, c)
  \/ \E k \in 1..Len(calls) : ProcessDone(k)
  \/ \E k \in 1..Len(calls) : ReadFails(k)

Spec == Init /\ [][Next]_vars

\* The runs of up to MaxStreamSubmits invocations, with every chunk of up to
\* MaxLines lines
MaxStreamSubmits == 1

NextStream ==
  \/ \E t \in Texts \cup {EmptyText} : SetInput(t)
  \/ \E m \in SendArguments : Len(calls) < MaxStreamSubmits /\ SendMessage(m)
  \/ \E m \in SendArguments : SendMessageIgnored(m)
  \/ \E k \in 1..Len(calls) : FetchRejects(k)
  \/ \E k \in 1..Len(calls) : FetchResolvesNoBody(k)
  \/ \E k \in 1..Len(calls) : FetchResolves(k)
  \/ \E k \in 1..Len(calls) : \E c \in AllChunks : ProcessChunk(k, c)
  \/ \E k \in 1..Len(calls) : ProcessDone(k)
  \/ \E k \in 1..Len(calls) : ReadFails(k)

SpecStream == Init /\ [][NextStream]_vars

\* The runs of up to MaxFeedbackSubmits invocations with clicks on the
\* feedback buttons
MaxFeedbackSubmits == 2

\* The codes of a feedback response
Codes == {200, 500}

NextFeedback ==
  \/ \E t \in {<<"p">>} : SetInput(t)
  \/ \E m \in SendArguments : Len(calls) < MaxFeedbackSubmits /\ SendMessage(m)
  \/ \E m \in SendArguments : SendMessageIgnored(m)
  \/ \E k \in 1..Len(calls) : FetchRejects(k)
  \/ \E k \in 1..Len(calls) : FetchResolvesNoBody(k)
  \/ \E k \in 1..Len(calls) : FetchResolves(k)
  \/ \E k \in 1..Len(calls) : \E c \in FeedbackChunks : ProcessChunk(k, c)
  \/ \E k \in 1..Len(calls) : ProcessDone(k)
  \/ \E k \in 1..Len(calls) : ReadFails(k)
  \/ \E k \in 1..Len(calls) : \E score \in {0, 1} : ClickFeedback(k, score)
  \/ \E k \in 1..Len(calls) : ClickFeedbackIgnored(k)
  \/ \E n \in 1..Len(feedbackLog) : \E code \in Codes : FeedbackResponds(n, code)
  \/ \E n \in 1..Len(feedbackLog) : FeedbackFails(n)

SpecFeedback == Init /\ [][NextFeedback]_vars

\* The runs of up to MaxSubmits invocations with one text typed and one kind
\* of chunk
NextFrame ==
  \/ \E t \in {<<"p">>} : SetInput(t)
  \/ \E m \in SendArguments : SendMessage(m)
  \/ \E k \in 1..Len(calls) : FetchRejects(k)
  \/ \E k \in 1..Len(calls) : FetchResolvesNoBody(k)
  \/ \E k \in 1..Len(calls) : FetchResolves(k)
  \/ \E k \in 1..Len(calls) : \E c \in FewChunks : ProcessChunk(k, c)
  \/ \E k \in 1..Len(calls) : ProcessDone(k)
  \/ \E k \in 1..Len(calls) : ReadFails(k)

SpecFrame == Init /\ [][NextFrame]_vars

\* The promise of the fetch of invocation k settles
FetchSettles(k) ==
  /\ k \in 1..Len(calls)
  /\ FetchRejects(k) \/ FetchResolvesNoBody(k) \/ FetchResolves(k)

\* The promise of reader.read() of invocation k settles, with the chunks of cs
ReadSettles(k, cs) ==
  /\ k \in 1..Len(calls)
  /\ \/ \E c \in cs : ProcessChunk(k, c)
     \/ ProcessDone(k)
     \/ ReadFails(k)

\* Every pending promise settles: the browser delivers the outcome of each
\* fetch and of each read, and the event loop runs the continuation. Nothing
\* is assumed of the user.
Delivery(cs) ==
  \A k \in 1..MaxSubmits :
    WF_vars(FetchSettles(k)) /\ WF_vars(ReadSettles(k, cs))

\* SpecStream under fair delivery
SpecStreamLive == Init /\ [][NextStream]_vars /\ Delivery(AllChunks)

\* One render of one assistant bubble
RenderNext == Render /\ UNCHANGED <<chatVars, wireVars, bubbleVars>>

InitRender == RenderInit /\ ChatInit /\ BubbleInit

SpecRender == InitRender /\ [][RenderNext]_vars

\* ------------------------------------------------------------------------
\* Properties of the rendering
\* ------------------------------------------------------------------------
\* JavaScript index of the first source with URL u
FirstIndex(sources, u) ==
  CHOOSE i \in 0..(Len(sources) - 1) :
    /\ sources[i + 1].url = u
    /\ \A j \in 0..(i - 1) : sources[j + 1].url # u

\* filtered holds every URL of sources exactly once, in first-occurrence order
DistinctInOrder(sources, filtered) ==
  /\ {filtered[j].url : j \in 1..Len(filtered)} = {sources[i].url : i \in 1..Len(sources)}
  /\ \A j, k \in 1..Len(filtered) :
       j < k => FirstIndex(sources, filtered[j].url) < FirstIndex(sources, filtered[k].url)

\* indexMap sends every index of sources to the filtered entry with its URL
MapsToOwnUrl(sources, filtered, indexMap) ==
  /\ DOMAIN indexMap = 0..(Len(sources) - 1)
  /\ \A i \in DOMAIN indexMap :
       /\ indexMap[i] \in 0..(Len(filtered) - 1)
       /\ filtered[indexMap[i] + 1].url = sources[i + 1].url

\* elements holds an InlineCitation made for the marker `match`
CitedAt(elements, match) ==
  {j \in 1..(Len(elements) - 1) :
     /\ elements[j].kind = "span"
     /\ elements[j].to = match.index
     /\ elements[j + 1].kind = "citation"}

\* the text of the marker `match` lies inside one plain span of elements
InPlainSpan(elements, content, match) ==
  \E j \in 1..Len(elements) :
    /\ elements[j].kind = "span"
    /\ elements[j].key <= match.index
    /\ match.end <= elements[j].to
    /\ elements[j].html = Slice(content, elements[j].key, elements[j].to)

ValidIndex(sources, n) == n \in 0..(Len(sources) - 1)

\* C1: filterSources keeps each distinct URL once in first-occurrence order,
\* its index map sends every original index to the filtered entry with the
\* same URL, and every marker with a valid index renders as a citation to
\* that entry.
C1_DedupAndCitation ==
  rPc = "rendered" =>
    LET fs == filterSources(rSources)
        ms == matchAll(rContent)
    IN  /\ DistinctInOrder(rSources, fs.filtered)
        /\ MapsToOwnUrl(rSources, fs.filtered, fs.indexMap)
        /\ \A k \in 1..Len(ms) :
             ValidIndex(rSources, ms[k].sourceNum) =>
               \E j \in CitedAt(rElements, ms[k]) :
                 rElements[j + 1].source.url = rSources[ms[k].sourceNum + 1].url

\* C2: a marker whose number is not an index of the source list produces no
\* InlineCitation and its text stays inside a plain content span.
C2_OutOfRangeIsPlainText ==
  rPc = "rendered" =>
    LET ms == matchAll(rContent)
    IN  \A k \in 1..Len(ms) :
          ~ValidIndex(rSources, ms[k].sourceNum) =>
            /\ CitedAt(rElements, ms[k]) = {}
            /\ InPlainSpan(rElements, rContent, ms[k])

\* ------------------------------------------------------------------------
\* Properties of sendMessage and the read loop
\* ------------------------------------------------------------------------
\* msgs without the message whose id is id
RECURSIVE Without(_, _)
Without(msgs, id) ==
  IF msgs = <<>> THEN <<>>
  ELSE IF Head(msgs).id = id THEN Without(Tail(msgs), id)
  ELSE <<Head(msgs)>> \o Without(Tail(msgs), id)

\* The fetch of invocation k rejects in this step
RejectsNow(k) == calls[k].pc = "fetch" /\ calls'[k].pc = "rejected"

\* Invocation k processes a chunk in this step
ChunkNow(k) == calls'[k].nchunks = calls[k].nchunks + 1

\* The stream of invocation k reports done in this step
DoneNow(k) == calls[k].pc = "read" /\ calls'[k].pc = "done"

\* C3: when the fetch of an accepted submission rejects, exactly the user
\* message of that submission is removed and the input field holds the
\* submitted text, whatever was interleaved since the submit.
C3_RollbackRemovesOwnMessage ==
  [][\A k \in 1..Len(calls) :
       RejectsNow(k) =>
         /\ messages' = Without(messages, <<"user", k>>)
         /\ Len(messages') = Len(messages) - 1
         /\ input' = calls[k].messageValue]_vars

\* C5: at most one chat exchange is in progress (request pending or response
\* stream not ended) in every reachable state.
C5_AtMostOneExchangeInProgress == Cardinality(InProgress) <= 1

\* Invocations whose stream has delivered at least one chunk
Delivered == {k \in 1..Len(calls) : calls[k].nchunks > 0}

AssistantSlots == {i \in 1..Len(messages) : messages[i].role = "assistant"}

\* C6: the list holds exactly one assistant message per response stream that
\* has delivered a chunk, and that slot is still at the index the
\* invocation recorded.
C6_OneSlotPerStream ==
  /\ Cardinality(AssistantSlots) = Cardinality(Delivered)
  /\ \A k \in Delivered :
       /\ calls[k].messageIndex # None
       /\ calls[k].messageIndex[1] < Len(messages)
       /\ messages[calls[k].messageIndex[1] + 1].id = <<"assistant", k>>

\* The tok fragments of the lines, concatenated in order
RECURSIVE ConcatToks(_)
ConcatToks(lines) ==
  IF lines = <<>> THEN <<>>
  ELSE (IF Head(lines).kind = "tok" THEN Head(lines).tok ELSE <<>>)
       \o ConcatToks(Tail(lines))

\* The value of the last line of the given kind, if any
RECURSIVE LastOf(_, _)
LastOf(lines, kind) ==
  IF lines = <<>> THEN None
  ELSE IF lines[Len(lines)].kind = kind
  THEN Some(IF kind = "run_id" THEN lines[Len(lines)].run_id
            ELSE lines[Len(lines)].sources)
  ELSE LastOf(SubSeq(lines, 1, Len(lines) - 1), kind)

\* The message at the index invocation k recorded
Slot(msgs, call) == msgs[call.messageIndex[1] + 1]

\* The lines invocation k received in this step
NewLines(k) ==
  SubSeq(calls'[k].received, Len(calls[k].received) + 1, Len(calls'[k].received))

\* C7: after every processed chunk the buffer is the concatenation of all tok
\* fragments received so far on the stream, in arrival order, and the slot's
\* content is the formatter applied to the whole buffer.
C7_TokenOrder ==
  [][\A k \in 1..Len(calls) :
       (ChunkNow(k) /\ ~crashed') =>
         /\ calls'[k].accumulatedMessage =
              calls[k].accumulatedMessage \o ConcatToks(NewLines(k))
         /\ calls'[k].accumulatedMessage = ConcatToks(calls'[k].received)
         /\ Slot(messages', calls'[k]).content =
              Formatted(ConcatToks(calls'[k].received))]_vars

\* C8: after every processed chunk the slot's runId and sources are the most
\* recent run_id and sources received so far on the stream, undefined while
\* none has arrived.
C8_LastSeenRunIdAndSources ==
  [][\A k \in 1..Len(calls) :
       (ChunkNow(k) /\ ~crashed') =>
         /\ Slot(messages', calls'[k]).runId = LastOf(calls'[k].received, "run_id")
         /\ Slot(messages', calls'[k]).sources = LastOf(calls'[k].received, "sources")
         /\ (calls[k].runId # None /\ LastOf(NewLines(k), "run_id") = None)
              => Slot(messages', calls'[k]).runId = calls[k].runId
         /\ (calls[k].sources # None /\ LastOf(NewLines(k), "sources") = None)
              => Slot(messages', calls'[k]).sources = calls[k].sources]_vars

\* C9: a stream reporting done appends exactly the entry {human: submitted
\* text, ai: accumulated text} to the end of the history; no other step
\* changes the history, and a stream that is done stays done.
C9_HistoryAppendOnDone ==
  [][LET done == {k \in 1..Len(calls) : DoneNow(k)}
     IN  /\ IF done = {} THEN chatHistory' = chatHistory
            ELSE \E k \in done :
                   /\ done = {k}
                   /\ chatHistory' =
                        Append(chatHistory,
                               [human |-> calls[k].messageValue,
                                ai |-> ConcatToks(calls[k].received)])
         /\ \A k \in 1..Len(calls) :
              calls[k].pc = "done" => calls'[k].pc = "done"]_vars

\* The members of a set of numbers in increasing order
RECURSIVE Ascending(_)
Ascending(S) ==
  IF S = {} THEN <<>>
  ELSE LET m == CHOOSE x \in S : \A y \in S : x <= y
       IN  <<m>> \o Ascending(S \ {m})

\* C10: the history in the body of every request holds one entry for each
\* earlier submission that had received a response, in submission order.
C10_HistoryCarriesEarlierExchanges ==
  \A k \in 1..Len(calls) :
    LET earlier == Ascending(calls[k].responded)
        history == calls[k].body.history
    IN  /\ Len(history) = Len(earlier)
        /\ \A i \in 1..Len(history) :
             history[i].human = calls[earlier[i]].messageValue

\* A reachable case of C7: two chunks, several fragments and a run_id line
\* received, and a buffer the formatter changes.
C7_Witness ==
  \E k \in 1..Len(calls) :
    /\ calls[k].nchunks = 2
    /\ Len(ConcatToks(calls[k].received)) >= 2
    /\ \E i \in 1..Len(calls[k].received) : calls[k].received[i].kind = "run_id"
    /\ calls[k].messageIndex # None
    /\ Slot(messages, calls[k]).content = Formatted(calls[k].accumulatedMessage)
    /\ Slot(messages, calls[k]).content # calls[k].accumulatedMessage
    /\ Slot(messages, calls[k]).content # <<>>

\* A reachable case of C8: a chunk with a run_id line, then a chunk without
\* one, and the slot still carries the run id.
C8_Witness ==
  \E k \in 1..Len(calls) :
    /\ calls[k].nchunks = 2
    /\ Len(calls[k].received) = 2
    /\ calls[k].received[1].kind = "run_id"
    /\ calls[k].received[2].kind = "tok"
    /\ calls[k].messageIndex # None
    /\ Slot(messages, calls[k]).runId = Some(calls[k].received[1].run_id)
    /\ Slot(messages, calls[k]).sources = None

\* A reachable case of C9: two streams done and recorded, a failed request
\* in between.
C9_Witness ==
  /\ Len(chatHistory) = 2
  /\ \E j, k, l \in 1..Len(calls) :
       /\ j # k
       /\ calls[j].pc = "done" /\ calls[j].nchunks > 0
       /\ calls[k].pc = "done" /\ calls[k].nchunks > 0
       /\ calls[l].pc = "rejected"

\* ------------------------------------------------------------------------
\* Properties of the feedback buttons
\* ------------------------------------------------------------------------
\* The requests sent for the message of invocation k
FeedbackRequestsOf(k) ==
  {n \in 1..Len(feedbackLog) : feedbackLog[n].bubble = k}

\* C4 as stated: at most one feedback request is ever sent for a message,
\* whatever the server outcomes.
C4_AtMostOneRequestPerMessage ==
  \A k \in 1..MaxSubmits : Cardinality(FeedbackRequestsOf(k)) <= 1

\* C4 as amended: a feedback request is sent for a message only after every
\* earlier request for that message has failed (a code other than 200 or a
\* network error); so at most one request per message is pending, at most one
\* succeeds, and none is sent while one is pending or after one succeeded.
C4_RequestOnlyAfterFailures ==
  \A k \in 1..MaxSubmits :
    \A n, m \in FeedbackRequestsOf(k) :
      n < m => feedbackLog[n].outcome \in {"refused", "error"}

\* A reachable case of C4: a failed request, then a successful one for the
\* same message, whose feedback is now recorded.
C4_Witness ==
  \E k \in 1..Len(calls) :
    /\ FeedbackRequestsOf(k) = {1, 2}
    /\ feedbackLog[1].outcome \in {"refused", "error"}
    /\ feedbackLog[2].outcome = "ok"
    /\ bubbles[k].feedback # None
    /\ ButtonsShown(k)
    /\ ~ClickGuard(k)

\* ------------------------------------------------------------------------
\* Properties of the read loop under fair delivery
\* ------------------------------------------------------------------------
\* The reading of the stream of invocation k has started and has not ended
Reading(k) == k \in 1..Len(calls) /\ calls[k].pc = "read"

\* The stream of invocation k reported done, and chatHistory holds the
\* exchange, or a read failed
Ended(k) ==
  /\ k \in 1..Len(calls)
  /\ \/ calls[k].pc = "error"
     \/ /\ calls[k].pc = "done"
        /\ \E i \in 1..Len(chatHistory) :
             chatHistory[i] = [human |-> calls[k].messageValue,
                               ai |-> calls[k].accumulatedMessage]

\* C11: every response stream whose reading has started is read until it
\* reports done, with the exchange recorded in the history, or until a read
\* fails; nothing else stops the read loop. In a state: the component can
\* still take the next event of every stream that is being read, and every
\* stream that reported done has its exchange in the history.
C11_StreamRunsToCompletion ==
  \A k \in 1..Len(calls) :
    /\ Reading(k) => ENABLED ReadSettles(k, FewChunks)
    /\ calls[k].pc = "done" => Ended(k)

\* ------------------------------------------------------------------------
\* Properties of the chat requests
\* ------------------------------------------------------------------------
\* C12: the chat requests sent are, one for one and in order, the accepted
\* submits (a failed request is never sent again), and when a fetch rejects
\* the loading flag is false and the input holds the submitted text, so that
\* both guards of sendMessage pass on the next submit.
C12_NoRetryInputReenabled ==
  [][/\ Len(requests') = Len(calls')
     /\ \A k \in 1..Len(calls') :
          /\ requests'[k].message = calls'[k].messageValue
          /\ requests'[k].history = calls'[k].body.history
     /\ \A k \in 1..Len(calls) :
          RejectsNow(k) =>
            /\ ~isLoading'
            /\ input' = calls[k].messageValue
            /\ input' # EmptyText]_vars

\* A request failed and the same text was submitted again, by the user
C12_Witness ==
  \E k \in 1..Len(calls) :
    /\ calls[k].pc = "rejected"
    /\ k < Len(calls)
    /\ calls[k + 1].messageValue = calls[k].messageValue
    /\ Len(requests) = Len(calls)

\* C18: all chat requests of one ChatWindow instance carry the same
\* conversation_id.
C18_OneConversationId ==
  \A i, j \in 1..Len(requests) :
    requests[i].conversation_id = requests[j].conversation_id

\* The step sends a chat request
SendsNow == Len(requests') > Len(requests)

\* C19: a submit made while the loading flag is set, or with empty text, sends
\* no request and leaves the message list, the input, the history and the
\* loading flag as they are.
C19_IgnoredSubmitChangesNothing ==
  [][/\ SendsNow =>
          /\ ~isLoading
          /\ requests'[Len(requests')].message # EmptyText
     /\ returnedEarly' =>
          /\ isLoading \/ input = EmptyText
          /\ ~SendsNow
          /\ UNCHANGED <<messages, input, chatHistory, isLoading>>]_vars

\* A submit of typed text was ignored while the loading flag was set
C19_Witness == returnedEarly /\ isLoading /\ input # EmptyText

\* C14: processing a chunk of the stream of invocation k changes only the
\* assistant message of k: every other message keeps its position and its
\* fields, and the list grows by one on the first chunk of k and keeps its
\* length on every later one.
C14_ChunkFrame ==
  [][\A k \in 1..Len(calls) :
       ChunkNow(k) =>
         /\ Len(messages') =
              Len(messages) + (IF calls[k].nchunks = 0 THEN 1 ELSE 0)
         /\ \A i \in 1..Len(messages) :
              messages[i].id # <<"assistant", k>> => messages'[i] = messages[i]]_vars

\* ------------------------------------------------------------------------
\* Properties of the loading flag
\* ------------------------------------------------------------------------
\* C15: after every accepted submission, whatever its outcome, the loading
\* flag eventually becomes false.
C15_LoadingEventuallyCleared == isLoading ~> ~isLoading

\* ------------------------------------------------------------------------
\* Properties of the feedback requests
\* ------------------------------------------------------------------------
\* Feedback request n gets its outcome in this step
SettlesNow(n) ==
  feedbackLog[n].outcome = "pending" /\ feedbackLog'[n].outcome # "pending"

\* A feedback request is sent in this step
FeedbackSentNow == Len(feedbackLog') > Len(feedbackLog)

\* C13: every feedback request that does not succeed (network error, or a
\* response whose code is not 200) shows an error toast, leaves the bubble's
\* feedback unset and clears the bubble's loading flag.
C13_FeedbackFailureHandling ==
  [][\A n \in 1..Len(feedbackLog) :
       (SettlesNow(n) /\ feedbackLog'[n].outcome # "ok") =>
         /\ feedbackLog'[n].toast
         /\ Mounted(n) =>
              /\ bubbles'[feedbackLog[n].bubble].feedback = None
              /\ ~bubbles'[feedbackLog[n].bubble].isLoading]_vars

\* C16: a feedback request is sent for an assistant message only when the
\* response stream of that message has ended.
C16_FeedbackOnlyWhenCompleted ==
  [][FeedbackSentNow =>
       calls[feedbackLog'[Len(feedbackLog')].bubble].pc \in {"done", "error"}]_vars

\* C17: a request sent while the bubble has no feedback record uses POST
\* with an id that no earlier request carries; one sent while it has a
\* record uses PATCH with the id of the record; and no PATCH is ever sent.
C17_PostWithFreshId ==
  [][FeedbackSentNow =>
       LET r == feedbackLog'[Len(feedbackLog')]
           feedback == bubbles[r.bubble].feedback
       IN  /\ feedback = None =>
                /\ r.method = "POST"
                /\ \A n \in 1..Len(feedbackLog) :
                     feedbackLog[n].feedback_id # r.feedback_id
           /\ feedback # None =>
                /\ r.method = "PATCH"
                /\ r.feedback_id = feedback[1].feedback_id
           /\ r.method # "PATCH"]_vars

\* Two requests were sent for one message, the first failed, the second was
\* recorded under its own id
C17_Witness ==
  /\ Len(feedbackLog) = 2
  /\ feedbackLog[1].bubble = feedbackLog[2].bubble
  /\ feedbackLog[1].outcome = "error"
  /\ feedbackLog[2].outcome = "ok"
  /\ feedbackLog[1].method = "POST" /\ feedbackLog[2].method = "POST"
  /\ bubbles[feedbackLog[2].bubble].feedback # None
  /\ bubbles[feedbackLog[2].bubble].feedback[1].feedback_id =
       feedbackLog[2].feedback_id

====
